---- MODULE Spec2Model ----
(***************************************************************************)
(* SmartChunker (src/src/document_processing/chunkers.py): token-aware     *)
(* recursive chunking of a text, the chunk records built from the split,   *)
(* and the statistics over a chunk list.                                   *)
(*                                                                         *)
(* A text is a sequence of one-character strings.  The tokenizer and the   *)
(* RecursiveCharacterTextSplitter are libraries the chunker calls; they    *)
(* are modelled by what they compute: the tokenizer as a small subword     *)
(* vocabulary in which tokens merge across characters, the splitter by its *)
(* split / merge / overlap algorithm.                                      *)
(***************************************************************************)
EXTENDS Integers, Sequences, FiniteSets, TLC

\* ------------------------------------------------------------------ bounds
MaxLen == 4          \* longest input text, in characters
MaxChunkSize == 3    \* largest chunk_size / chunk_overlap given to the constructor

\* ------------------------------------------------------------- characters
NL == "\n"
SP == " "
Letters == {"a"}
Emoji == {"E"}                      \* one character, several tokens
Whitespace == {SP, NL}              \* what str.strip() removes
Alphabet == Letters \cup Emoji \cup {SP, NL, "."}

RECURSIVE SeqsUpTo(_)
SeqsUpTo(n) ==
    IF n = 0 THEN {<<>>}
    ELSE LET S == SeqsUpTo(n - 1)
         IN S \cup {Append(s, c) : s \in {t \in S : Len(t) = n - 1}, c \in Alphabet}

Texts == SeqsUpTo(MaxLen)

\* -------------------------------------------------------------- tokenizer
\* tiktoken.encoding_for_model: the models the library knows; any other name
\* raises KeyError.
KnownModels == {"gpt-4"}
ModelNames == KnownModels \cup {"my-local-model"}

get_encoding(name) == name

encoding_for_model(model_name) ==
    IF model_name \in KnownModels THEN "cl100k_base" ELSE "KeyError"

\* Letters of one word that share a token ("hello" = 1 token), and the tokens
\* of a character outside the vocabulary (an emoji = multiple tokens).
TokLetters == 2
EmojiTokens == 3

\* Tokens of s[i..], `run` letters of the current word token already read.
\* A space directly before a letter belongs to that word's first token
\* ("artificial intelligence" = 2 tokens).
RECURSIVE TokensFrom(_, _, _)
TokensFrom(s, i, run) ==
    IF i > Len(s) THEN 0
    ELSE IF s[i] \in Letters
         THEN (IF run = 0 THEN 1 ELSE 0) + TokensFrom(s, i + 1, (run + 1) % TokLetters)
    ELSE IF s[i] = SP /\ i < Len(s) /\ s[i + 1] \in Letters
         THEN TokensFrom(s, i + 1, 0)
    ELSE (IF s[i] \in Emoji THEN EmojiTokens ELSE 1) + TokensFrom(s, i + 1, 0)

count_tokens(s) == TokensFrom(s, 1, 0)

\* ---------------------------------------------------------- string helpers
RECURSIVE LStrip(_)
LStrip(s) == IF s # <<>> /\ s[1] \in Whitespace THEN LStrip(Tail(s)) ELSE s

RECURSIVE RStrip(_)
RStrip(s) ==
    IF s # <<>> /\ s[Len(s)] \in Whitespace THEN RStrip(SubSeq(s, 1, Len(s) - 1)) ELSE s

Strip(s) == RStrip(LStrip(s))

RECURSIVE Join(_)
Join(pieces) == IF pieces = <<>> THEN <<>> ELSE pieces[1] \o Join(Tail(pieces))

MatchAt(s, sep, i) ==
    /\ i + Len(sep) - 1 <= Len(s)
    /\ \A j \in 1..Len(sep) : s[i + j - 1] = sep[j]

Contains(s, sep) == \E i \in 1..Len(s) : MatchAt(s, sep, i)

\* ------------------------------------------------------------- the splitter
\* Mutant of Separators: the character level, "", is missing.
SeparatorsNoChars ==
    << <<NL, NL, NL>>, <<NL, NL>>, <<NL>>, <<".", SP>>, <<"!", SP>>, <<"?", SP>>,
       <<";", SP>>, <<",", SP>>, <<SP>> >>

\* separators=[...] of the RecursiveCharacterTextSplitter, coarsest first.
Separators ==
    << <<NL, NL, NL>>, <<NL, NL>>, <<NL>>, <<".", SP>>, <<"!", SP>>, <<"?", SP>>,
       <<";", SP>>, <<",", SP>>, <<SP>>, <<>> >>

\* Mutant of SplitKeep: keep_separator=False, the separators are dropped.
RECURSIVE SplitDrop(_, _, _, _)
SplitDrop(s, sep, pos, cur) ==
    IF pos > Len(s) THEN <<cur>>
    ELSE IF MatchAt(s, sep, pos)
         THEN <<cur>> \o SplitDrop(s, sep, pos + Len(sep), <<>>)
         ELSE SplitDrop(s, sep, pos + 1, Append(cur, s[pos]))

\* re.split with the separator captured, each separator glued to the front
\* of the text that follows it; `cur` is the piece being read.
RECURSIVE SplitKeep(_, _, _, _)
SplitKeep(s, sep, pos, cur) ==
    IF pos > Len(s) THEN <<cur>>
    ELSE IF MatchAt(s, sep, pos)
         THEN <<cur>> \o SplitKeep(s, sep, pos + Len(sep), sep)
         ELSE SplitKeep(s, sep, pos + 1, Append(cur, s[pos]))

_split_text_with_regex(s, sep) ==
    LET splits == IF sep # <<>> THEN SplitKeep(s, sep, 1, <<>>)
                  ELSE [i \in 1..Len(s) |-> <<s[i]>>]
    IN SelectSeq(splits, LAMBDA p : p # <<>>)

\* A document of the splitter's output.  text is what the splitter returns;
\* carry (the pieces kept from the document before it, joined) and
\* carry_total (their summed lengths) record the overlap window it was
\* started with.
Doc(text, carry, carry_total) ==
    [text |-> text, carry |-> carry, carry_total |-> carry_total]

\* _join_docs with separator "" and strip_whitespace: no document when only
\* whitespace is left.
_join_docs(cur, carry, carry_total) ==
    LET text == Strip(Join(cur))
    IN IF text = <<>> THEN <<>> ELSE <<Doc(text, carry, carry_total)>>

\* Mutant of Overflows: the budget test is off by one.
OverflowsLate(cfg, total, len) == total + len > cfg.chunk_size + 1

\* if total + _len + separator_len > chunk_size (the separator is "", of
\* length 0): the next piece does not fit the document being built.
Overflows(cfg, total, len) == total + len > cfg.chunk_size

\* Mutant of KeepsPopping: the window is only shrunk until the next piece fits.
KeepsPoppingFitOnly(cfg, total, len) == Overflows(cfg, total, len) /\ total > 0

\* The condition of the while loop of _merge_splits.
KeepsPopping(cfg, total, len) ==
    total > cfg.chunk_overlap \/ (Overflows(cfg, total, len) /\ total > 0)

\* The while loop of _merge_splits: drop pieces from the front of the window
\* until it is within chunk_overlap and the next piece fits.
RECURSIVE PopWindow(_, _, _, _)
PopWindow(cfg, cur, total, len) ==
    IF KeepsPopping(cfg, total, len)
    THEN PopWindow(cfg, Tail(cur), total - count_tokens(cur[1]), len)
    ELSE [cur |-> cur, total |-> total]

RECURSIVE MergeLoop(_, _, _, _, _, _, _)
MergeLoop(cfg, splits, k, docs, cur, total, carry) ==
    IF k > Len(splits) THEN docs \o _join_docs(cur, carry.text, carry.total)
    ELSE LET d == splits[k]
             len == count_tokens(d)
         IN IF Overflows(cfg, total, len) /\ Len(cur) > 0
            THEN LET w == PopWindow(cfg, cur, total, len)
                 IN MergeLoop(cfg, splits, k + 1,
                              docs \o _join_docs(cur, carry.text, carry.total),
                              Append(w.cur, d), w.total + len,
                              [text |-> Join(w.cur), total |-> w.total])
            ELSE MergeLoop(cfg, splits, k + 1, docs, Append(cur, d), total + len, carry)

_merge_splits(cfg, splits) ==
    MergeLoop(cfg, splits, 1, <<>>, <<>>, 0, [text |-> <<>>, total |-> 0])

\* The separator _split_text picks from separators[lvl..]: the first one that
\* is "" or occurs in the text.
RECURSIVE PickLevel(_, _)
PickLevel(s, lvl) ==
    IF lvl >= Len(Separators) THEN Len(Separators)
    ELSE IF Separators[lvl] = <<>> \/ Contains(s, Separators[lvl]) THEN lvl
    ELSE PickLevel(s, lvl + 1)

\* Mutant of Flush: a lone collected piece is not merged.
FlushNeedsTwo(cfg, good) == IF Len(good) > 1 THEN _merge_splits(cfg, good) ELSE <<>>

Flush(cfg, good) == IF good # <<>> THEN _merge_splits(cfg, good) ELSE <<>>

RECURSIVE _split_text(_, _, _)
RECURSIVE SplitLoop(_, _, _, _, _)

\* The for loop of _split_text over the pieces: short pieces are collected
\* and merged, a long piece is split again with the finer separators, or
\* kept whole when none is left.
SplitLoop(cfg, splits, k, good, next) ==
    IF k > Len(splits) THEN Flush(cfg, good)
    ELSE LET s == splits[k]
         IN IF count_tokens(s) < cfg.chunk_size
            THEN SplitLoop(cfg, splits, k + 1, Append(good, s), next)
            ELSE Flush(cfg, good)
                 \o (IF next > Len(Separators) THEN <<Doc(s, <<>>, 0)>>
                     ELSE _split_text(cfg, s, next))
                 \o SplitLoop(cfg, splits, k + 1, <<>>, next)

_split_text(cfg, s, lvl) ==
    LET i == PickLevel(s, lvl)
        sep == Separators[i]
        next == IF sep = <<>> THEN Len(Separators) + 1 ELSE i + 1
    IN SplitLoop(cfg, _split_text_with_regex(s, sep), 1, <<>>, next)

split_text(cfg, s) == _split_text(cfg, s, 1)

\* ------------------------------------------------------------ SmartChunker
\* An optional argument: Python's None, or a value.
None == [none |-> TRUE, v |-> <<>>]
Some(x) == [none |-> FALSE, v |-> x]

TextArgs == {None} \cup {Some(t) : t \in Texts}

EmptyDict == [k \in {} |-> 0]
MetaArgs ==
    { None,
      Some([source |-> 1]),
      Some([source |-> 1, chunk_index |-> 40, total_chunks |-> 41]) }

NoChunker == [chunk_size |-> 0, chunk_overlap |-> 0, encoding |-> "none"]

\* TextSplitter.__init__, which the constructor reaches when it builds the
\* splitter: it refuses an overlap larger than the chunk size, and nothing
\* else about the two sizes.
SplitterRejects(chunk_size, chunk_overlap) == chunk_overlap > chunk_size

\* Mutant of ChooseEncoding: the KeyError is not caught.
ChooseEncodingNoFallback(model_name) ==
    IF encoding_for_model(model_name) = "KeyError"
    THEN [encoding |-> "none", log |-> {}, raised |-> "KeyError"]
    ELSE [encoding |-> encoding_for_model(model_name), log |-> {}, raised |-> "none"]

\* SmartChunker.__init__: the encoding chosen for the model name.
ChooseEncoding(model_name) ==
    IF encoding_for_model(model_name) = "KeyError"
    THEN [encoding |-> get_encoding("cl100k_base"), log |-> {"model_not_found"},
          raised |-> "none"]
    ELSE [encoding |-> encoding_for_model(model_name), log |-> {}, raised |-> "none"]

\* SmartChunker(chunk_size, chunk_overlap, model_name): the fields are set,
\* the encoding is chosen, then the splitter is built.
SmartChunker(chunk_size, chunk_overlap, model_name) ==
    LET enc == ChooseEncoding(model_name)
        self == [chunk_size |-> chunk_size, chunk_overlap |-> chunk_overlap,
                 encoding |-> enc.encoding]
    IN IF enc.raised # "none"
       THEN [chunker |-> NoChunker, log |-> enc.log, raised |-> enc.raised]
       ELSE IF SplitterRejects(chunk_size, chunk_overlap)
       THEN [chunker |-> NoChunker, log |-> enc.log, raised |-> "ValueError"]
       ELSE [chunker |-> self, log |-> enc.log, raised |-> "none"]

\* Mutant of IsBlank: only "not text" is tested.
IsBlankNoStrip(text) == text.none \/ text.v = <<>>

\* not text or not text.strip()
IsBlank(text) == text.none \/ text.v = <<>> \/ Strip(text.v) = <<>>

\* Mutant of MergeMeta: the input mapping is spread last, so its keys win.
MergeMetaInputLast(metadata, i, n) ==
    LET md == IF metadata.none THEN EmptyDict ELSE metadata.v
    IN [k \in DOMAIN md \cup {"chunk_index", "total_chunks"} |->
          IF k \in DOMAIN md THEN md[k]
          ELSE IF k = "chunk_index" THEN i
          ELSE n]

\* {**(metadata or {}), 'chunk_index': i, 'total_chunks': n}
MergeMeta(metadata, i, n) ==
    LET md == IF metadata.none THEN EmptyDict ELSE metadata.v
    IN [k \in DOMAIN md \cup {"chunk_index", "total_chunks"} |->
          IF k = "chunk_index" THEN i
          ELSE IF k = "total_chunks" THEN n
          ELSE md[k]]

\* Mutant of ChunkObj: the ids are counted from 1.
ChunkObjFromOne(ds, i, metadata) ==
    [text |-> ds[i].text,
     chunk_id |-> i,
     token_count |-> count_tokens(ds[i].text),
     char_count |-> Len(ds[i].text),
     metadata |-> MergeMeta(metadata, i - 1, Len(ds))]

\* The chunk dict built for the i-th text of the split (enumerate counts from 0).
ChunkObj(ds, i, metadata) ==
    [text |-> ds[i].text,
     chunk_id |-> i - 1,
     token_count |-> count_tokens(ds[i].text),
     char_count |-> Len(ds[i].text),
     metadata |-> MergeMeta(metadata, i - 1, Len(ds))]

\* chunk_document: what it returns, logs and raises, and the split it made.
chunk_document(cfg, text, metadata) ==
    IF IsBlank(text)
    THEN [docs |-> <<>>, chunks |-> <<>>, log |-> {"empty_text"}, raised |-> "none",
          split_called |-> FALSE]
    ELSE LET ds == split_text(cfg, text.v)
             objs == [i \in 1..Len(ds) |-> ChunkObj(ds, i, metadata)]
         IN IF Len(objs) = 0
            THEN [docs |-> ds, chunks |-> <<>>, log |-> {}, raised |-> "ZeroDivisionError",
                  split_called |-> TRUE]
            ELSE [docs |-> ds, chunks |-> objs, log |-> {"created_chunks"},
                  raised |-> "none", split_called |-> TRUE]

\* ------------------------------------------------------------- statistics
RECURSIVE SumOf(_)
SumOf(xs) == IF xs = <<>> THEN 0 ELSE xs[1] + SumOf(Tail(xs))

RECURSIVE MinOf(_)
MinOf(xs) ==
    IF Len(xs) = 1 THEN xs[1]
    ELSE LET m == MinOf(Tail(xs)) IN IF xs[1] <= m THEN xs[1] ELSE m

RECURSIVE MaxOf(_)
MaxOf(xs) ==
    IF Len(xs) = 1 THEN xs[1]
    ELSE LET m == MaxOf(Tail(xs)) IN IF xs[1] >= m THEN xs[1] ELSE m

\* A real quotient, kept exact as numerator over denominator.
Quotient(n, d) == [num |-> n, den |-> d]

\* Mutant of get_chunk_stats: the average is an integer division.
get_chunk_stats_floor(cl) ==
    IF cl = <<>> THEN EmptyDict
    ELSE LET token_counts == [i \in 1..Len(cl) |-> cl[i].token_count]
         IN [total_chunks |-> Len(cl),
             total_tokens |-> SumOf(token_counts),
             avg_tokens |-> Quotient(SumOf(token_counts) \div Len(token_counts), 1),
             min_tokens |-> MinOf(token_counts),
             max_tokens |-> MaxOf(token_counts),
             total_chars |-> SumOf([i \in 1..Len(cl) |-> cl[i].char_count])]

get_chunk_stats(cl) ==
    IF cl = <<>> THEN EmptyDict
    ELSE LET token_counts == [i \in 1..Len(cl) |-> cl[i].token_count]
         IN [total_chunks |-> Len(cl),
             total_tokens |-> SumOf(token_counts),
             avg_tokens |-> Quotient(SumOf(token_counts), Len(token_counts)),
             min_tokens |-> MinOf(token_counts),
             max_tokens |-> MaxOf(token_counts),
             total_chars |-> SumOf([i \in 1..Len(cl) |-> cl[i].char_count])]

\* Chunk lists handed to get_chunk_stats directly (test 4 passes the chunker's
\* own output; these are lists a caller assembled).
MaxStatLen == 3
StatChunks ==
    { [token_count |-> 100, char_count |-> 410],
      [token_count |-> 150, char_count |-> 600],
      [token_count |-> 120, char_count |-> 495] }

RECURSIVE StatListsUpTo(_)
StatListsUpTo(n) ==
    IF n = 0 THEN {<<>>}
    ELSE LET S == StatListsUpTo(n - 1)
         IN S \cup {Append(s, c) : s \in {t \in S : Len(t) = n - 1}, c \in StatChunks}

StatLists == StatListsUpTo(MaxStatLen)

\* ------------------------------------------------------------ state machine
VARIABLES
    pc,        \* "new", "built", "failed", "chunked", "stats"
    chunker,   \* the SmartChunker's fields once built
    call,      \* the last call: its name and arguments
    log,       \* what the last call logged
    raised,    \* the exception the last call raised, or "none"
    docs,      \* the split of the last chunk_document call
    chunks,    \* the list the last chunk_document call returned
    stats      \* the dict the last get_chunk_stats call returned

vars == <<pc, chunker, call, log, raised, docs, chunks, stats>>

NoCall == [op |-> "none", chunk_size |-> 0, chunk_overlap |-> 0, model_name |-> "none",
           text |-> None, metadata |-> None, list |-> <<>>, split_called |-> FALSE]

\* Sizes given to the constructor.  Sizes below 1 and overlaps below 0 are
\* not drawn: what the splitter's constructor makes of them differs between
\* its releases.
ChunkSizes == 1..MaxChunkSize
ChunkOverlaps == 0..MaxChunkSize

\* Texts given to the convenience function.
MaxQuickLen == 2
QuickTextArgs == {None} \cup {Some(t) : t \in SeqsUpTo(MaxQuickLen)}

Init ==
    /\ pc = "new"
    /\ chunker = NoChunker
    /\ call = NoCall
    /\ log = {}
    /\ raised = "none"
    /\ docs = <<>>
    /\ chunks = <<>>
    /\ stats = EmptyDict

\* chunker = SmartChunker(chunk_size, chunk_overlap, model_name)
Construct(chunk_size, chunk_overlap, model_name) ==
    /\ pc = "new"
    /\ \E r \in {SmartChunker(chunk_size, chunk_overlap, model_name)} :
          /\ pc' = IF r.raised = "none" THEN "built" ELSE "failed"
          /\ chunker' = r.chunker
          /\ log' = r.log
          /\ raised' = r.raised
    /\ call' = [NoCall EXCEPT !.op = "__init__", !.chunk_size = chunk_size,
                              !.chunk_overlap = chunk_overlap, !.model_name = model_name]
    /\ UNCHANGED <<docs, chunks, stats>>

\* chunker.chunk_document(text, metadata).  The chunker keeps nothing of a
\* document between calls, so one call per behaviour shows them all.
ChunkDocument(text, metadata) ==
    /\ pc = "built"
    /\ \E r \in {chunk_document(chunker, text, metadata)} :
          /\ docs' = r.docs
          /\ chunks' = r.chunks
          /\ log' = r.log
          /\ raised' = r.raised
          /\ call' = [NoCall EXCEPT !.op = "chunk_document", !.text = text,
                                    !.metadata = metadata,
                                    !.split_called = r.split_called]
    /\ pc' = "chunked"
    /\ UNCHANGED <<chunker, stats>>

\* chunk_text(text, chunk_size, chunk_overlap, metadata): builds a chunker for
\* the default model and chunks the text with it.
ChunkText(text, chunk_size, chunk_overlap, metadata) ==
    /\ pc = "new"
    /\ \E c \in {SmartChunker(chunk_size, chunk_overlap, "gpt-4")} :
          IF c.raised # "none"
          THEN /\ pc' = "failed"
               /\ chunker' = c.chunker
               /\ log' = c.log
               /\ raised' = c.raised
               /\ call' = [NoCall EXCEPT !.op = "chunk_text", !.text = text,
                                         !.metadata = metadata,
                                         !.chunk_size = chunk_size,
                                         !.chunk_overlap = chunk_overlap]
               /\ UNCHANGED <<docs, chunks>>
          ELSE \E r \in {chunk_document(c.chunker, text, metadata)} :
               /\ pc' = "chunked"
               /\ chunker' = c.chunker
               /\ docs' = r.docs
               /\ chunks' = r.chunks
               /\ log' = c.log \cup r.log
               /\ raised' = r.raised
               /\ call' = [NoCall EXCEPT !.op = "chunk_text", !.text = text,
                                         !.metadata = metadata,
                                         !.chunk_size = chunk_size,
                                         !.chunk_overlap = chunk_overlap,
                                         !.split_called = r.split_called]
    /\ UNCHANGED stats

\* chunker.get_chunk_stats(chunks) on the list chunk_document returned.
GetChunkStats ==
    /\ pc = "chunked"
    /\ raised = "none"
    /\ stats' = get_chunk_stats(chunks)
    /\ call' = [NoCall EXCEPT !.op = "get_chunk_stats", !.list = chunks]
    /\ log' = {}
    /\ pc' = "stats"
    /\ UNCHANGED <<chunker, raised, docs, chunks>>

\* chunker.get_chunk_stats(cl) on a list assembled by the caller.
GetStatsOf(cl) ==
    /\ pc = "built"
    /\ stats' = get_chunk_stats(cl)
    /\ call' = [NoCall EXCEPT !.op = "get_chunk_stats", !.list = cl]
    /\ log' = {}
    /\ pc' = "stats"
    /\ UNCHANGED <<chunker, raised, docs, chunks>>

Next ==
    \/ pc = "new" /\ \E cs \in ChunkSizes, co \in ChunkOverlaps, m \in ModelNames :
                        Construct(cs, co, m)
    \/ pc = "built" /\ \E t \in TextArgs, md \in MetaArgs : ChunkDocument(t, md)
    \/ pc = "new" /\ \E t \in QuickTextArgs, cs \in ChunkSizes, co \in ChunkOverlaps,
                          md \in MetaArgs : ChunkText(t, cs, co, md)
    \/ GetChunkStats
    \/ pc = "built" /\ \E cl \in StatLists : GetStatsOf(cl)

Spec == Init /\ [][Next]_vars

\* ------------------------------------------------------------------ claims
ValidConfig(c) ==
    c.chunk_size >= 1 /\ 0 <= c.chunk_overlap /\ c.chunk_overlap < c.chunk_size

\* chunk_document has returned a list (through a chunker or through chunk_text).
Returned == pc = "chunked" /\ raised = "none"

AllWhitespace(t) == \A i \in 1..Len(t) : t[i] \in Whitespace

\* An atomic unit larger than the budget: one character of more than
\* chunk_size tokens.
Oversized(c) == Len(c.text) = 1 /\ c.token_count > chunker.chunk_size

C2_SequentialIds ==
    pc = "chunked" => \A i \in 1..Len(chunks) : chunks[i].chunk_id = i - 1

C2_Witness == Returned /\ Len(chunks) >= 3 /\ chunks[3].chunk_id = 2

\* C3: in every returned chunk metadata.total_chunks is the length of the
\* list and metadata.chunk_index is the chunk_id, also when the input mapping
\* has keys of those names; every other input key keeps its input value.
C3_Metadata ==
    pc = "chunked" =>
      \A i \in 1..Len(chunks) :
        LET m == chunks[i].metadata
            given == IF call.metadata.none THEN EmptyDict ELSE call.metadata.v
        IN /\ m["total_chunks"] = Len(chunks)
           /\ m["chunk_index"] = chunks[i].chunk_id
           /\ DOMAIN m = DOMAIN given \cup {"chunk_index", "total_chunks"}
           /\ \A k \in DOMAIN given \ {"chunk_index", "total_chunks"} : m[k] = given[k]

C3_Witness ==
    /\ Returned /\ Len(chunks) >= 2
    /\ ~call.metadata.none
    /\ {"chunk_index", "total_chunks", "source"} \subseteq DOMAIN call.metadata.v
    /\ chunks[2].metadata["total_chunks"] # call.metadata.v["total_chunks"]
    /\ chunks[2].metadata["source"] = call.metadata.v["source"]

\* C4: for a text that is None, empty or only whitespace chunk_document
\* returns the empty list and raises nothing, whatever the configuration and
\* the metadata, and the splitter is not called.
C4_BlankGivesEmpty ==
    (pc = "chunked" /\ (call.text.none \/ AllWhitespace(call.text.v)))
    => chunks = <<>> /\ raised = "none" /\ ~call.split_called /\ docs = <<>>

C4_Witness ==
    /\ pc = "chunked" /\ ~call.text.none
    /\ Len(call.text.v) >= 2 /\ AllWhitespace(call.text.v)
    /\ ~call.metadata.none
    /\ chunks = <<>> /\ raised = "none"

\* C5 (as claimed): a constructor call whose sizes violate
\* 0 <= chunk_overlap < chunk_size, chunk_size >= 1 fails at construction, so
\* that no chunker with such sizes reaches chunk_document.
C5_InvalidConfigRejected ==
    /\ (call.op \in {"__init__", "chunk_text"}
          /\ ~ValidConfig([chunk_size |-> call.chunk_size,
                           chunk_overlap |-> call.chunk_overlap]))
       => pc = "failed" /\ raised = "ValueError"
    /\ pc \in {"built", "chunked", "stats"} => ValidConfig(chunker)

\* A text with no whitespace and no separator of the hierarchy above the
\* character level.
UnbrokenRun(t) ==
    /\ t # <<>>
    /\ \A i \in 1..Len(t) : t[i] \notin Whitespace
    /\ \A k \in 1..Len(Separators) : Separators[k] # <<>> => ~Contains(t, Separators[k])

C6_Case ==
    /\ pc = "chunked" /\ ~call.text.none
    /\ UnbrokenRun(call.text.v)
    /\ count_tokens(call.text.v) > chunker.chunk_size

\* C6 (as claimed): an unbroken run of more than chunk_size tokens comes back
\* as exactly one chunk whose text is the whole input, and nothing is raised.
C6_OneOversizedChunk ==
    C6_Case => /\ raised = "none"
               /\ Len(chunks) = 1
               /\ chunks[1].text = call.text.v

\* C6 (amended): an unbroken run of more than chunk_size tokens is cut at the
\* character level and regrouped; a run of more than one character comes back
\* as more than one chunk, none of them the whole input, each within
\* chunk_size tokens unless it is one character that alone exceeds it; a run
\* of one character comes back as one chunk equal to the input; nothing is
\* raised.
C6_RunCutIntoCharacters ==
    C6_Case =>
      /\ raised = "none"
      /\ Len(call.text.v) = 1 => Len(chunks) = 1 /\ chunks[1].text = call.text.v
      /\ Len(call.text.v) > 1 =>
           /\ Len(chunks) > 1
           /\ \A i \in 1..Len(chunks) :
                /\ chunks[i].text # call.text.v
                /\ chunks[i].token_count <= chunker.chunk_size \/ Len(chunks[i].text) = 1

C6_Witness ==
    /\ C6_Case /\ raised = "none"
    /\ Len(call.text.v) >= 3
    /\ Len(chunks) >= 2
    /\ \E i \in 1..Len(chunks) : Len(chunks[i].text) > 1

Min(a, b) == IF a <= b THEN a ELSE b

IsPrefix(p, t) == Len(p) <= Len(t) /\ SubSeq(t, 1, Len(p)) = p
IsSuffix(p, t) == Len(p) <= Len(t) /\ SubSeq(t, Len(t) - Len(p) + 1, Len(t)) = p
IsSubstring(p, t) ==
    \E i \in 0..(Len(t) - Len(p)) : SubSeq(t, i + 1, i + Len(p)) = p

\* The most tokens of identical content that the end of a and the start of b
\* share.
SharedTokens(a, b) ==
    LET ks == {k \in 0..Min(Len(a), Len(b)) :
                 SubSeq(a, Len(a) - k + 1, Len(a)) = SubSeq(b, 1, k)}
        best == CHOOSE k \in ks :
                  \A j \in ks : count_tokens(SubSeq(b, 1, j)) <= count_tokens(SubSeq(b, 1, k))
    IN count_tokens(SubSeq(b, 1, best))

\* C7 (as claimed): adjacent chunks, neither of them oversized, share at
\* least min(chunk_overlap, token_count of the first) tokens of identical
\* content at their boundary.
C7_OverlapAtLeast ==
    (Returned /\ ValidConfig(chunker)) =>
      \A i \in 1..(Len(chunks) - 1) :
        (~Oversized(chunks[i]) /\ ~Oversized(chunks[i + 1]))
        => SharedTokens(chunks[i].text, chunks[i + 1].text)
             >= Min(chunker.chunk_overlap, chunks[i].token_count)

\* C7 (amended): what a chunk repeats from the chunk before it is a run of
\* whole split pieces, possibly none, whose token counts sum to at most
\* chunk_overlap: it ends the chunk before and starts the chunk, and the
\* first chunk repeats nothing.
C7_OverlapAtMost ==
    pc = "chunked" =>
      /\ Len(docs) = Len(chunks)
      /\ \A i \in 1..Len(docs) :
           LET shared == Strip(docs[i].carry)
           IN /\ docs[i].carry_total <= chunker.chunk_overlap
              /\ count_tokens(shared) <= chunker.chunk_overlap
              /\ IsPrefix(shared, chunks[i].text)
              /\ i = 1 => shared = <<>>
              /\ i > 1 => IsSuffix(shared, chunks[i - 1].text)

\* An output with one boundary that shares exactly chunk_overlap tokens and
\* one boundary between ordinary chunks that shares nothing.
C7_Witness ==
    /\ Returned /\ ValidConfig(chunker) /\ chunker.chunk_overlap >= 1
    /\ \E i \in 2..Len(docs) :
         count_tokens(Strip(docs[i].carry)) = chunker.chunk_overlap
    /\ \E i \in 2..Len(docs) :
         /\ docs[i].carry = <<>>
         /\ ~Oversized(chunks[i - 1]) /\ ~Oversized(chunks[i])

NoWs(t) == SelectSeq(t, LAMBDA c : c \notin Whitespace)

\* The text of chunk i without what it repeats from the chunk before it,
\* whitespace left out.
NewPart(i) ==
    LET full == NoWs(chunks[i].text)
    IN SubSeq(full, Len(NoWs(docs[i].carry)) + 1, Len(full))

\* C8: no content is dropped: every chunk is a verbatim slice of the input,
\* and the chunks in order, each without what it repeats from the one before,
\* spell the input up to the whitespace at the cuts.
C8_NoContentLost ==
    (pc = "chunked" /\ ~call.text.none /\ ~AllWhitespace(call.text.v)) =>
      /\ Len(docs) = Len(chunks)
      /\ \A i \in 1..Len(chunks) : IsSubstring(chunks[i].text, call.text.v)
      /\ Join([i \in 1..Len(chunks) |-> NewPart(i)]) = NoWs(call.text.v)

C8_Witness ==
    /\ Returned /\ Len(chunks) >= 2
    /\ \E i \in 2..Len(docs) : NoWs(docs[i].carry) # <<>>
    /\ \E i \in 1..Len(call.text.v) : call.text.v[i] \in Whitespace
    /\ Join([i \in 1..Len(chunks) |-> chunks[i].text]) # call.text.v

RECURSIVE SumFromEnd(_, _)
SumFromEnd(xs, n) == IF n = 0 THEN 0 ELSE SumFromEnd(xs, n - 1) + xs[n]

TokenCountsOf(cl) == [i \in 1..Len(cl) |-> cl[i].token_count]
CharCountsOf(cl) == [i \in 1..Len(cl) |-> cl[i].char_count]

\* C9: get_chunk_stats of a non-empty list returns its length, the sum, the
\* mean, the minimum and the maximum of the token counts and the sum of the
\* character counts ([100, 150, 120] gives 3, 370, 123.33, 100, 150), and of
\* the empty list the empty dict.
C9_Stats ==
    pc = "stats" =>
      LET cl == call.list
          tc == TokenCountsOf(cl)
      IN IF cl = <<>> THEN DOMAIN stats = {}
         ELSE /\ stats.total_chunks = Len(cl)
              /\ stats.total_tokens = SumFromEnd(tc, Len(tc))
              /\ stats.avg_tokens.den # 0
              /\ stats.avg_tokens.num * Len(cl)
                   = SumFromEnd(tc, Len(tc)) * stats.avg_tokens.den
              /\ \E i \in 1..Len(tc) : tc[i] = stats.min_tokens
              /\ \A i \in 1..Len(tc) : stats.min_tokens <= tc[i]
              /\ \E i \in 1..Len(tc) : tc[i] = stats.max_tokens
              /\ \A i \in 1..Len(tc) : stats.max_tokens >= tc[i]
              /\ stats.total_chars = SumFromEnd(CharCountsOf(cl), Len(cl))
              /\ tc = <<100, 150, 120>> =>
                   /\ stats.total_chunks = 3 /\ stats.total_tokens = 370
                   /\ stats.min_tokens = 100 /\ stats.max_tokens = 150
                   /\ (100 * stats.avg_tokens.num) \div stats.avg_tokens.den = 12333

C9_Witness ==
    /\ pc = "stats"
    /\ TokenCountsOf(call.list) = <<100, 150, 120>>
    /\ stats.total_tokens = 370

\* C10: a constructor call with a model name the tokenizer library does not
\* know never fails for it: it logs a warning and takes cl100k_base, it is
\* refused only for sizes a known name is refused for, and the chunker built
\* is the one the default model gives.
C10_UnknownModelFallsBack ==
    (call.op = "__init__" /\ call.model_name \notin KnownModels) =>
      /\ raised # "KeyError"
      /\ "model_not_found" \in log
      /\ raised = "none" <=> call.chunk_overlap <= call.chunk_size
      /\ raised = "none" =>
           /\ pc = "built"
           /\ chunker = [chunk_size |-> call.chunk_size,
                         chunk_overlap |-> call.chunk_overlap,
                         encoding |-> "cl100k_base"]
           /\ chunker.encoding = encoding_for_model("gpt-4")

C10_Witness ==
    /\ call.op = "__init__" /\ call.model_name \notin KnownModels
    /\ pc = "built" /\ raised = "none"
    /\ chunker.encoding = "cl100k_base"
    /\ "model_not_found" \in log

\* C11: a text that passes the blank check is split into at least one chunk,
\* so chunk_document returns a non-empty list and the average in its log line
\* never divides by zero; the empty list is returned for a blank text only.
C11_NonBlankGivesChunks ==
    pc = "chunked" =>
      /\ raised # "ZeroDivisionError"
      /\ chunks = <<>> <=> (call.text.none \/ AllWhitespace(call.text.v))
      /\ (~call.text.none /\ ~AllWhitespace(call.text.v)) =>
           /\ call.split_called
           /\ Len(docs) >= 1
           /\ Len(chunks) = Len(docs)
           /\ "created_chunks" \in log

\* A text with whitespace around its content, some of it dropped by the
\* split, that still comes back as a chunk.
C11_Witness ==
    /\ Returned /\ ~call.text.none
    /\ Len(call.text.v) >= 3
    /\ call.text.v[1] \in Whitespace /\ call.text.v[Len(call.text.v)] \in Whitespace
    /\ Len(chunks) = 1
    /\ "created_chunks" \in log

====
